---- MODULE Spec2Model ----
(***************************************************************************)
(* Model of freqtrade/rpc/webhook.py: class Webhook.                       *)
(*                                                                         *)
(* One Webhook object is built from a configuration (Init), then send_msg  *)
(* is called any number of times.  A call of send_msg is cut at its calls  *)
(* of requests.post: the action send_msg runs the handler from its entry   *)
(* until its first POST is in flight (or to its return), and the action    *)
(* Post takes the outcome of the POST in flight from the network and runs  *)
(* the handler on until the next POST is in flight (or to its return).     *)
(*                                                                         *)
(* Python values:  Optional[x] is a sequence of length 0 (None) or 1;      *)
(* a dict is a function; a str.format template is a sequence of tokens,    *)
(* <<"lit", text>> or <<"fld", fieldname>>; an exception is the name of    *)
(* its class, "none" when nothing is raised.                               *)
(***************************************************************************)
EXTENDS Integers, Sequences, FiniteSets, TLC

VARIABLES
    whconfig,     \* the template mappings of self._config["webhook"], by key
    url,          \* self._url: [list |-> isinstance(_url, list), v |-> the URL(s)]
    format,       \* self._format
    retries,      \* self._retries
    retry_delay,  \* self._retry_delay, in units of 100 ms
    timeout,      \* self._timeout, in seconds
    pc,           \* "idle": no call in progress; "post": a call waits in requests.post
    msg,          \* the msg of the current (or last) call of send_msg
    payload,      \* send_msg / _send_msg local: the rendered payload
    attempts,     \* _send_msg local
    idx,          \* _send_msg local: position of `for url in self._url`
    trace,        \* what the current (or last) call did to the outside: POSTs and sleeps
    logs,         \* the levels of the log records of the current (or last) call
    raised        \* the exception the last call raised to its caller, or "none"

vars == <<whconfig, url, format, retries, retry_delay, timeout,
          pc, msg, payload, attempts, idx, trace, logs, raised>>

confvars == <<whconfig, url, format, retries, retry_delay, timeout>>

-----------------------------------------------------------------------------
(* Bounds of the model. *)

\* the largest configured value of "retries"
MaxRetries == 2

\* the longest configured list of URLs
MaxUrls == 2

\* the largest number of template mappings in one configuration
MaxKeys == 2

-----------------------------------------------------------------------------
(* Defaults of Webhook.__init__. *)

DefaultFormat == "form"

DefaultRetries == 0

\* 0.1 s
DefaultRetryDelay == 1

DefaultTimeout == 10

None == <<>>

Some(x) == <<x>>

\* dict.get(key, default) on an option that is present (<<v>>) or absent (<<>>)
GetOpt(opt, default) == IF opt = None THEN default ELSE opt[1]

-----------------------------------------------------------------------------
(* RPCMessageType: the members the handler names, by their values. *)

STATUS == "status"
WARNING == "warning"
EXCEPTION == "exception"
STARTUP == "startup"
ENTRY == "entry"
ENTRY_FILL == "entry_fill"
ENTRY_CANCEL == "entry_cancel"
EXIT == "exit"
EXIT_FILL == "exit_fill"
EXIT_CANCEL == "exit_cancel"
PROTECTION_TRIGGER == "protection_trigger"
PROTECTION_TRIGGER_GLOBAL == "protection_trigger_global"
WHITELIST == "whitelist"
ANALYZED_DF == "analyzed_df"
NEW_CANDLE == "new_candle"
STRATEGY_MSG == "strategy_msg"

\* a message type that no branch of _get_value_dict names
UNLISTED == "unlisted"

TradeTypes == {ENTRY, ENTRY_CANCEL, ENTRY_FILL, EXIT, EXIT_FILL, EXIT_CANCEL}

StatusTypes == {STATUS, STARTUP, EXCEPTION, WARNING}

PassiveTypes == {PROTECTION_TRIGGER, PROTECTION_TRIGGER_GLOBAL, WHITELIST,
                 ANALYZED_DF, NEW_CANDLE, STRATEGY_MSG}

MsgTypes == TradeTypes \cup StatusTypes \cup PassiveTypes \cup {UNLISTED}

\* The event record of each type: its "type" and the fields its producer fills.
MsgOf(t) ==
    IF t \in {EXIT, EXIT_FILL, EXIT_CANCEL}
    THEN [type |-> t, pair |-> "BTC", profit |-> "5"]
    ELSE IF t \in {ENTRY, ENTRY_FILL, ENTRY_CANCEL}
    THEN [type |-> t, pair |-> "BTC"]
    ELSE IF t \in {PROTECTION_TRIGGER, PROTECTION_TRIGGER_GLOBAL}
    THEN [type |-> t, pair |-> "ETH"]
    ELSE IF t \in StatusTypes
    THEN [type |-> t, status |-> "running"]
    ELSE [type |-> t]

NoMsg == [type |-> "-"]

-----------------------------------------------------------------------------
(* Configurations. *)

LegacyKeys == {"webhookentry", "webhookentrycancel", "webhookentryfill",
               "webhookexit", "webhookexitfill", "webhookexitcancel",
               "webhookstatus"}

ConfigKeys == MsgTypes \cup LegacyKeys

Lit(s) == <<"lit", s>>

Fld(f) == <<"fld", f>>

\* The template mappings a key k is configured with.  Each one names its key in
\* a literal, so that a rendered payload tells which mapping it came from.
Template(k, shape) ==
    CASE shape = "empty"  -> <<>>
      [] shape = "plain"  -> ("data" :> <<Lit(k), Fld("pair")>>)
      [] shape = "nodata" -> ("text" :> <<Lit(k), Fld("pair")>>)
      [] shape = "miss1"  -> ("data" :> <<Lit(k), Fld("profit")>>)
                               @@ ("text" :> <<Fld("pair")>>)
      [] shape = "miss2"  -> ("data" :> <<Lit(k), Fld("pair")>>)
                               @@ ("text" :> <<Fld("profit")>>)

DeliveryShapes == {"empty", "plain", "nodata", "miss1", "miss2"}

\* up to MaxKeys template mappings under any keys, at most one of them empty
RoutingConfigs ==
    UNION { { [k \in K |-> Template(k, IF k = e THEN "empty" ELSE "plain")]
              : e \in K \cup {"-"} }
            : K \in { S \in SUBSET ConfigKeys : Cardinality(S) <= MaxKeys } }

\* one template mapping: of any shape for an entry, whose msg has no "profit",
\* and one that names "profit" for an exit, whose msg has it
DeliveryConfigs ==
    { (ENTRY :> Template(ENTRY, s)) : s \in DeliveryShapes }
        \cup {(EXIT :> Template(EXIT, "miss1"))}

UrlNames == <<"u1", "u2", "u3", "u4">>

UrlChoices ==
    {[list |-> FALSE, v |-> <<"u1">>]}
        \cup { [list |-> TRUE, v |-> SubSeq(UrlNames, 1, n)] : n \in 0..MaxUrls }

FormatChoices == {None, Some("json"), Some("raw"), Some("xml")}

RetriesChoices == {None} \cup { Some(r) : r \in 0..MaxRetries }

RetryDelayChoices == {None, Some(0)}

-----------------------------------------------------------------------------
(* Exceptions. *)

\* (mutant) a bare `except:` in _send_msg
IsRequestException_bare(exc) == exc # "none"

\* (mutant) `except (ConnectionError, Timeout)` in _send_msg
IsRequestException_transport(exc) == exc \in {"ConnectionError", "Timeout"}

\* `except RequestException` in _send_msg: post raises ConnectionError or Timeout,
\* raise_for_status raises HTTPError; all are subclasses of RequestException.
IsRequestException(exc) ==
    exc \in {"RequestException", "ConnectionError", "Timeout", "HTTPError"}

\* (mutant) send_msg without its except clause
IsKeyError_uncaught(exc) == FALSE

\* `except KeyError` in send_msg
IsKeyError(exc) == exc = "KeyError"

-----------------------------------------------------------------------------
(* Webhook._get_value_dict *)

\* whconfig.get(key)
Get(conf, key) == IF key \in DOMAIN conf THEN Some(conf[key]) ELSE None

Return(v) == [exc |-> "none", val |-> v]

Raise(e) == [exc |-> e, val |-> None]

\* (mutant) the legacy keys are looked up before the exact key
_get_value_dict_legacy_first(conf, m) ==
    LET t == m.type
        legacy == IF t \in StatusTypes THEN "webhookstatus"
                  ELSE IF t = ENTRY THEN "webhookentry"
                  ELSE IF t = ENTRY_CANCEL THEN "webhookentrycancel"
                  ELSE IF t = ENTRY_FILL THEN "webhookentryfill"
                  ELSE IF t = EXIT THEN "webhookexit"
                  ELSE IF t = EXIT_FILL THEN "webhookexitfill"
                  ELSE IF t = EXIT_CANCEL THEN "webhookexitcancel"
                  ELSE "-"
    IN  IF legacy \in DOMAIN conf THEN Return(Get(conf, legacy))
        ELSE IF t \in DOMAIN conf THEN Return(Get(conf, t))
        ELSE IF t \in StatusTypes \cup TradeTypes \cup PassiveTypes THEN Return(None)
        ELSE Raise("UnboundLocalError")

\* (mutant) the branch of EXIT_FILL reads the key of EXIT
_get_value_dict_exit_fill(conf, m) ==
    LET t == m.type IN
    IF t \in DOMAIN conf THEN Return(Get(conf, t))
    ELSE IF t = ENTRY THEN Return(Get(conf, "webhookentry"))
    ELSE IF t = ENTRY_CANCEL THEN Return(Get(conf, "webhookentrycancel"))
    ELSE IF t = ENTRY_FILL THEN Return(Get(conf, "webhookentryfill"))
    ELSE IF t \in {EXIT, EXIT_FILL} THEN Return(Get(conf, "webhookexit"))
    ELSE IF t = EXIT_CANCEL THEN Return(Get(conf, "webhookexitcancel"))
    ELSE IF t \in StatusTypes THEN Return(Get(conf, "webhookstatus"))
    ELSE IF t \in PassiveTypes THEN Return(None)
    ELSE Raise("UnboundLocalError")

\* (mutant) the protection triggers are listed with the status types
_get_value_dict_protection(conf, m) ==
    LET t == m.type IN
    IF t \in DOMAIN conf THEN Return(Get(conf, t))
    ELSE IF t = ENTRY THEN Return(Get(conf, "webhookentry"))
    ELSE IF t = ENTRY_CANCEL THEN Return(Get(conf, "webhookentrycancel"))
    ELSE IF t = ENTRY_FILL THEN Return(Get(conf, "webhookentryfill"))
    ELSE IF t = EXIT THEN Return(Get(conf, "webhookexit"))
    ELSE IF t = EXIT_FILL THEN Return(Get(conf, "webhookexitfill"))
    ELSE IF t = EXIT_CANCEL THEN Return(Get(conf, "webhookexitcancel"))
    ELSE IF t \in StatusTypes \cup {PROTECTION_TRIGGER, PROTECTION_TRIGGER_GLOBAL}
         THEN Return(Get(conf, "webhookstatus"))
    ELSE IF t \in PassiveTypes THEN Return(None)
    ELSE Raise("UnboundLocalError")

_get_value_dict(conf, m) ==
    LET t == m.type IN
    IF t \in DOMAIN conf THEN Return(Get(conf, t))
    ELSE IF t \in {ENTRY} THEN Return(Get(conf, "webhookentry"))
    ELSE IF t \in {ENTRY_CANCEL} THEN Return(Get(conf, "webhookentrycancel"))
    ELSE IF t \in {ENTRY_FILL} THEN Return(Get(conf, "webhookentryfill"))
    ELSE IF t = EXIT THEN Return(Get(conf, "webhookexit"))
    ELSE IF t = EXIT_FILL THEN Return(Get(conf, "webhookexitfill"))
    ELSE IF t = EXIT_CANCEL THEN Return(Get(conf, "webhookexitcancel"))
    ELSE IF t \in {STATUS, STARTUP, EXCEPTION, WARNING}
         THEN Return(Get(conf, "webhookstatus"))
    ELSE IF t \in {PROTECTION_TRIGGER, PROTECTION_TRIGGER_GLOBAL, WHITELIST,
                   ANALYZED_DF, NEW_CANDLE, STRATEGY_MSG}
         THEN Return(None)
    \* no branch assigned valuedict: `return valuedict` reads an unbound local
    ELSE Raise("UnboundLocalError")

\* `not valuedict`: None and the empty dict are both false
Falsy(v) == v = None \/ DOMAIN v[1] = {}

-----------------------------------------------------------------------------
(* value.format( **msg ) and the dict comprehension of send_msg *)

RECURSIVE StrFormat(_, _)
\* the text of a template whose fields are all in m
StrFormat(tokens, m) ==
    IF tokens = <<>> THEN ""
    ELSE LET tok == Head(tokens) IN
         (IF tok[1] = "lit" THEN tok[2] ELSE m[tok[2]]) \o StrFormat(Tail(tokens), m)

\* value.format( **msg ) raises KeyError on a field that msg does not have
FormatRaises(tokens, m) ==
    \E i \in 1..Len(tokens) : tokens[i][1] = "fld" /\ tokens[i][2] \notin DOMAIN m

\* payload = {key: value.format( **msg ) for (key, value) in valuedict.items()}
Render(valuedict, m) ==
    IF \E k \in DOMAIN valuedict : FormatRaises(valuedict[k], m)
    THEN Raise("KeyError")
    ELSE Return([k \in DOMAIN valuedict |-> StrFormat(valuedict[k], m)])

-----------------------------------------------------------------------------
(* Webhook._post_msg and requests.post *)

NoFields == <<>>

\* the call post(u, data=..., json=..., headers=..., timeout=tmo) that _post_msg makes
Call(u, enc, fields, text, tmo) ==
    [exc  |-> "none",
     call |-> Some([url |-> u, enc |-> enc, fields |-> fields, text |-> text,
                    timeout |-> tmo])]

NoCall(e) == [exc |-> e, call |-> None]

\* (mutant) the raw branch posts data=payload, like the form branch
_post_msg_raw_whole(fmt, u, pl, tmo) ==
    IF fmt = "form" THEN Call(u, "form", pl, "", tmo)
    ELSE IF fmt = "json" THEN Call(u, "json", pl, "", tmo)
    ELSE IF fmt = "raw"
         THEN IF "data" \in DOMAIN pl
              THEN Call(u, "text/plain", pl, "", tmo)
              ELSE NoCall("KeyError")
    ELSE NoCall("NotImplementedError")

\* _post_msg up to its call of post: the call it makes, or what it raises before
_post_msg(fmt, u, pl, tmo) ==
    IF fmt = "form" THEN Call(u, "form", pl, "", tmo)
    ELSE IF fmt = "json" THEN Call(u, "json", pl, "", tmo)
    ELSE IF fmt = "raw"
         THEN IF "data" \in DOMAIN pl
              THEN Call(u, "text/plain", NoFields, pl["data"], tmo)
              \* payload["data"] is evaluated before post is called
              ELSE NoCall("KeyError")
    ELSE NoCall("NotImplementedError")

\* what post does with a request: "fail" is a transport error or a timeout
\* (post raises), "err" a response with an error status, "ok" any other response
Outcomes == {"fail", "err", "ok"}

\* requests.post: what it raises, and the response it returns
post(o) ==
    [exc      |-> IF o = "fail" THEN "ConnectionError" ELSE "none",
     response |-> IF o = "fail" THEN None ELSE Some(o)]

\* response.raise_for_status()
raise_for_status(response) ==
    IF response = None THEN "UnboundLocalError"
    ELSE IF response[1] = "err" THEN "HTTPError"
    ELSE "none"

-----------------------------------------------------------------------------
(* Webhook._send_msg and the try block of Webhook.send_msg *)

\* a POST that went out, and how it ended
PostEv(att, call, o) ==
    [ev |-> "post", attempt |-> att,
     req |-> [url |-> call.url, enc |-> call.enc, fields |-> call.fields,
              text |-> call.text, timeout |-> call.timeout, outcome |-> o]]

SleepEv(att, d) == [ev |-> "sleep", attempt |-> att, secs |-> d]

\* the state a step of the handler leaves
At(p, att, i, tr, lg, exc) ==
    [pc |-> p, attempts |-> att, idx |-> i, trace |-> tr, logs |-> lg, raised |-> exc]

\* send_msg returns to its caller
Returned(att, tr, lg) == At("idle", att, 0, tr, lg, "none")

\* an exception leaves _send_msg (or the routing, or the rendering) inside the
\* try block of send_msg: `except KeyError` logs it, anything else goes to the caller
Propagate(exc, att, tr, lg) ==
    IF IsKeyError(exc)
    THEN Returned(att, tr, Append(lg, "exception"))
    ELSE At("idle", att, 0, tr, lg, exc)

\* (mutant) while not success and attempts < self._retries
LoopCond_strict(success, att, r) == ~success /\ att < r

\* (mutant) while attempts <= self._retries
LoopCond_no_success(success, att, r) == att <= r

\* (mutant) while not success
LoopCond_no_bound(success, att, r) == ~success

\* while not success and attempts <= self._retries
LoopCond(success, att, r) == ~success /\ att <= r

RECURSIVE Loop(_, _, _, _, _)
RECURSIVE Except(_, _, _, _, _)

\* _send_msg calls _post_msg for the i-th URL: the handler waits in post, or
\* _post_msg raised before posting
StartPost(pl, i, att, tr, lg) ==
    LET c == _post_msg(format, url.v[i], pl, timeout) IN
    IF c.exc # "none"
    THEN Except(pl, c.exc, att, tr, lg)
    ELSE At("post", att, i, tr, lg, "none")

\* response.raise_for_status() and `success = True`
EndAttempt(pl, response, att, tr, lg) ==
    LET e == raise_for_status(response) IN
    IF e # "none"
    THEN Except(pl, e, att, tr, lg)
    ELSE Loop(pl, TRUE, att, tr, lg)

\* (mutant) the delay is taken before every attempt, the first one too
Loop_sleep_first(pl, success, att, tr, lg) ==
    IF LoopCond(success, att, retries)
    THEN LET tr2 == IF retry_delay # 0
                    THEN Append(tr, SleepEv(att, retry_delay)) ELSE tr
             lg2 == IF att > 0 THEN Append(lg, "info") ELSE lg
         IN  IF url.list /\ url.v = <<>>
             THEN EndAttempt(pl, None, att + 1, tr2, lg2)
             ELSE StartPost(pl, 1, att + 1, tr2, lg2)
    ELSE Returned(att, tr, lg)

\* _send_msg from the head of its while loop to its next POST
Loop(pl, success, att, tr, lg) ==
    IF LoopCond(success, att, retries)
    THEN LET tr2 == IF att > 0 /\ retry_delay # 0
                    THEN Append(tr, SleepEv(att, retry_delay)) ELSE tr
             lg2 == IF att > 0 THEN Append(lg, "info") ELSE lg
         IN  IF url.list /\ url.v = <<>>
             \* the for loop runs no body and `response` stays unbound
             THEN EndAttempt(pl, None, att + 1, tr2, lg2)
             ELSE StartPost(pl, 1, att + 1, tr2, lg2)
    ELSE Returned(att, tr, lg)

\* (mutant) the warning is logged once, when the retries are used up
Except_warn_last(pl, exc, att, tr, lg) ==
    IF IsRequestException(exc)
    THEN Loop(pl, FALSE, att, tr, IF att > retries THEN Append(lg, "warning") ELSE lg)
    ELSE Propagate(exc, att, tr, lg)

\* an exception in the try block of _send_msg: `except RequestException` logs a
\* warning and the loop goes on, anything else leaves _send_msg
Except(pl, exc, att, tr, lg) ==
    IF IsRequestException(exc)
    THEN Loop(pl, FALSE, att, tr, Append(lg, "warning"))
    ELSE Propagate(exc, att, tr, lg)

Goto(st) ==
    /\ pc' = st.pc
    /\ attempts' = st.attempts
    /\ idx' = st.idx
    /\ trace' = st.trace
    /\ logs' = st.logs
    /\ raised' = st.raised

-----------------------------------------------------------------------------
(* Webhook.__init__ *)

\* configurations with several template mappings and the default delivery options
InitRouting ==
    /\ whconfig \in RoutingConfigs
    /\ url = [list |-> FALSE, v |-> <<"u1">>]
    /\ format = GetOpt(None, DefaultFormat)
    /\ retries = GetOpt(None, DefaultRetries)
    /\ retry_delay = GetOpt(None, DefaultRetryDelay)

\* configurations with one template mapping and any delivery options; a list of
\* several URLs comes with the plain template only
InitDelivery ==
    /\ whconfig \in DeliveryConfigs
    /\ url \in UrlChoices
    /\ Len(url.v) > 1 => whconfig = (ENTRY :> Template(ENTRY, "plain"))
    /\ \E f \in FormatChoices : format = GetOpt(f, DefaultFormat)
    /\ \E r \in RetriesChoices : retries = GetOpt(r, DefaultRetries)
    /\ \E d \in RetryDelayChoices : retry_delay = GetOpt(d, DefaultRetryDelay)

Init ==
    /\ InitRouting \/ InitDelivery
    /\ timeout = GetOpt(None, DefaultTimeout)
    /\ pc = "idle"
    /\ msg = NoMsg
    /\ payload = <<>>
    /\ attempts = 0
    /\ idx = 0
    /\ trace = <<>>
    /\ logs = <<>>
    /\ raised = "none"

-----------------------------------------------------------------------------
(* Webhook.send_msg, from its entry to its first POST *)

\* (mutant) the format is checked when send_msg is entered
send_msg_checks_format(m) ==
    /\ pc = "idle"
    /\ msg' = m
    /\ LET r == _get_value_dict(whconfig, m) IN
       IF format \notin {"form", "json", "raw"}
       THEN payload' = <<>> /\ Goto(Propagate("NotImplementedError", 0, <<>>, <<>>))
       ELSE IF r.exc # "none"
       THEN payload' = <<>> /\ Goto(Propagate(r.exc, 0, <<>>, <<>>))
       ELSE IF Falsy(r.val)
       THEN payload' = <<>> /\ Goto(Returned(0, <<>>, <<"debug">>))
       ELSE LET p == Render(r.val[1], m) IN
            IF p.exc # "none"
            THEN payload' = <<>> /\ Goto(Propagate(p.exc, 0, <<>>, <<>>))
            ELSE payload' = p.val /\ Goto(Loop(p.val, FALSE, 0, <<>>, <<>>))
    /\ UNCHANGED confvars

\* (mutant) the attempt counter is kept on the object and not reset by a call
send_msg_keeps_attempts(m) ==
    /\ pc = "idle"
    /\ msg' = m
    /\ LET r == _get_value_dict(whconfig, m) IN
       IF r.exc # "none"
       THEN payload' = <<>> /\ Goto(Propagate(r.exc, 0, <<>>, <<>>))
       ELSE IF Falsy(r.val)
       THEN payload' = <<>> /\ Goto(Returned(0, <<>>, <<"debug">>))
       ELSE LET p == Render(r.val[1], m) IN
            IF p.exc # "none"
            THEN payload' = <<>> /\ Goto(Propagate(p.exc, 0, <<>>, <<>>))
            ELSE payload' = p.val /\ Goto(Loop(p.val, FALSE, attempts, <<>>, <<>>))
    /\ UNCHANGED confvars

send_msg(m) ==
    /\ pc = "idle"
    /\ msg' = m
    /\ LET r == _get_value_dict(whconfig, m) IN
       IF r.exc # "none"
       THEN payload' = <<>> /\ Goto(Propagate(r.exc, 0, <<>>, <<>>))
       ELSE IF Falsy(r.val)
       THEN payload' = <<>> /\ Goto(Returned(0, <<>>, <<"debug">>))
       ELSE LET p == Render(r.val[1], m) IN
            IF p.exc # "none"
            THEN payload' = <<>> /\ Goto(Propagate(p.exc, 0, <<>>, <<>>))
            ELSE payload' = p.val /\ Goto(Loop(p.val, FALSE, 0, <<>>, <<>>))
    /\ UNCHANGED confvars

\* (mutant) the try block is inside the for loop: a transport failure on one URL
\* is logged and the loop goes on to the next URL
Post_continue_after_fail(o) ==
    /\ pc = "post"
    /\ LET c   == _post_msg(format, url.v[idx], payload, timeout).call[1]
           r   == post(o)
           tr2 == Append(trace, PostEv(attempts, c, o))
       IN  IF r.exc # "none" /\ url.list /\ idx < Len(url.v)
           THEN Goto(StartPost(payload, idx + 1, attempts, tr2, Append(logs, "warning")))
           ELSE IF r.exc # "none"
           THEN Goto(Except(payload, r.exc, attempts, tr2, logs))
           ELSE IF url.list /\ idx < Len(url.v)
           THEN Goto(StartPost(payload, idx + 1, attempts, tr2, logs))
           ELSE Goto(EndAttempt(payload, r.response, attempts, tr2, logs))
    /\ UNCHANGED <<confvars, msg, payload>>

\* (mutant) raise_for_status is called on the response of every URL of the list
Post_status_each(o) ==
    /\ pc = "post"
    /\ LET c   == _post_msg(format, url.v[idx], payload, timeout).call[1]
           r   == post(o)
           tr2 == Append(trace, PostEv(attempts, c, o))
           e   == raise_for_status(r.response)
       IN  IF r.exc # "none"
           THEN Goto(Except(payload, r.exc, attempts, tr2, logs))
           ELSE IF e # "none"
           THEN Goto(Except(payload, e, attempts, tr2, logs))
           ELSE IF url.list /\ idx < Len(url.v)
           THEN Goto(StartPost(payload, idx + 1, attempts, tr2, logs))
           ELSE Goto(Loop(payload, TRUE, attempts, tr2, logs))
    /\ UNCHANGED <<confvars, msg, payload>>

(* The POST in flight ends with outcome o; the handler runs to its next POST *)

Post(o) ==
    /\ pc = "post"
    /\ LET c   == _post_msg(format, url.v[idx], payload, timeout).call[1]
           r   == post(o)
           tr2 == Append(trace, PostEv(attempts, c, o))
       IN  IF r.exc # "none"
           THEN Goto(Except(payload, r.exc, attempts, tr2, logs))
           ELSE IF url.list /\ idx < Len(url.v)
           \* the next url of the list; this response is overwritten
           THEN Goto(StartPost(payload, idx + 1, attempts, tr2, logs))
           ELSE Goto(EndAttempt(payload, r.response, attempts, tr2, logs))
    /\ UNCHANGED <<confvars, msg, payload>>

Next ==
    \/ \E t \in MsgTypes : send_msg(MsgOf(t))
    \/ \E o \in Outcomes : Post(o)

Spec == Init /\ [][Next]_vars

\* post is called with timeout=self._timeout: a POST in flight returns or raises
\* within that time, so the step that ends it is eventually taken
FairSpec == Spec /\ WF_vars(\E o \in Outcomes : Post(o))

TypeOK ==
    /\ pc \in {"idle", "post"}
    /\ attempts \in 0..(retries + 1)
    /\ raised \in {"none", "NotImplementedError", "UnboundLocalError"}

-----------------------------------------------------------------------------
(* Observations of a call, for the properties below. *)

IsPost(e) == e.ev = "post"

IsSleep(e) == e.ev = "sleep"

\* the POSTs of the current (or last) call, in order
Posts == SelectSeq(trace, IsPost)

\* the positions in Posts of the POSTs to URL u
PostsTo(u) == { i \in 1..Len(Posts) : Posts[i].req.url = u }

\* a call of send_msg has returned or raised
Done == pc = "idle" /\ msg # NoMsg

\* the call went into the while loop of _send_msg
ReachedDelivery == attempts >= 1

\* the destinations of the configuration
Destinations == { url.v[i] : i \in 1..Len(url.v) }

\* the format is one that posts this payload
Postable ==
    \/ format \in {"form", "json"}
    \/ format = "raw" /\ "data" \in DOMAIN payload

-----------------------------------------------------------------------------
(* C1: Delivery failures never reach the caller: with a format that posts the  *)
(* payload (form, json, raw with a "data" field) and a single URL or a         *)
(* non-empty list of URLs, a call that went into delivery raises nothing,      *)
(* whatever the POSTs did (transport error or timeout, error status, success)  *)
(* and whatever retries is.                                                    *)
C1_DeliveryFailuresNeverRaise ==
    (ReachedDelivery /\ Postable /\ Destinations # {}) => raised = "none"

\* a call over two URLs and three attempts that saw a transport failure and an
\* error status returned without raising
C1_Witness ==
    /\ Done /\ raised = "none"
    /\ url.list /\ Len(url.v) = 2 /\ format = "raw"
    /\ attempts = 3
    /\ \E i, j \in 1..Len(Posts) :
          Posts[i].req.outcome = "fail" /\ Posts[j].req.outcome = "err"

(* C2: With retries = R and a single destination whose every POST fails, one   *)
(* call makes exactly R + 1 POSTs (R + 1 attempts) and then returns; the       *)
(* default R is 0.                                                            *)
C2_ExactlyRetriesPlusOneAttempts ==
    ( /\ Done /\ ReachedDelivery /\ Postable
      /\ Len(url.v) = 1
      /\ \A i \in 1..Len(Posts) : Posts[i].req.outcome # "ok" )
    => /\ Len(Posts) = retries + 1
       /\ attempts = retries + 1
       /\ \A i \in 1..Len(Posts) : Posts[i].attempt = i
       /\ raised = "none"

\* retries = 2, one URL, three failed POSTs, and the call is over
C2_Witness ==
    /\ Done /\ retries = 2 /\ ~url.list
    /\ Len(Posts) = 3
    /\ \A i \in 1..3 : Posts[i].req.outcome # "ok"

(* C3: With two or more URLs each URL has a delivery of its own: a URL whose   *)
(* POST succeeded is not POSTed again in the call, and a URL whose POSTs all   *)
(* failed has been POSTed retries + 1 times when the call is over, whatever    *)
(* the other URLs returned.                                                    *)
C3_IndependentPerUrlDelivery ==
    (url.list /\ Len(url.v) >= 2 /\ Postable) =>
        \A u \in Destinations :
            /\ \A i, j \in PostsTo(u) :
                   i < j => Posts[i].req.outcome # "ok"
            /\ ( /\ Done /\ ReachedDelivery
                 /\ \A i \in PostsTo(u) : Posts[i].req.outcome # "ok" )
               => Cardinality(PostsTo(u)) = retries + 1

(* C4: send_msg never raises to its caller, for any event type, templates,     *)
(* destinations and network outcomes, except for the error of an unsupported   *)
(* format.                                                                     *)
C4_NotifyNeverRaises ==
    raised \in {"none", "NotImplementedError"}

(* C5: A passive event type makes no HTTP call and raises nothing for any      *)
(* configuration, also one with a template under the type's own name.          *)
C5_PassiveNeverPosts ==
    msg.type \in PassiveTypes => (Posts = <<>> /\ raised = "none")

(* C5, as amended: a passive event type makes no HTTP call and raises nothing  *)
(* for every configuration that has no key equal to the type's own name; the   *)
(* call is a skip with a debug record.                                         *)
C5_PassiveSkippedUnlessExactKey ==
    (msg.type \in PassiveTypes /\ msg.type \notin DOMAIN whconfig) =>
        /\ pc = "idle" /\ raised = "none"
        /\ trace = <<>> /\ logs = <<"debug">>

\* a protection trigger, whose fields a configured legacy template could render,
\* was skipped
C5_Witness ==
    /\ msg.type = PROTECTION_TRIGGER
    /\ PROTECTION_TRIGGER \notin DOMAIN whconfig
    /\ "webhookstatus" \in DOMAIN whconfig /\ "webhookentry" \in DOMAIN whconfig
    /\ Done /\ logs = <<"debug">>

(* C6: If a template of the selected mapping names a field the event record    *)
(* does not have, the call makes no HTTP call, whichever key of the mapping    *)
(* it is, and returns without raising.                                         *)
C6_MissingFieldNoPost ==
    LET r == _get_value_dict(whconfig, msg) IN
    ( /\ msg # NoMsg
      /\ r.exc = "none" /\ ~Falsy(r.val)
      /\ \E k \in DOMAIN r.val[1] :
            \E i \in 1..Len(r.val[1][k]) :
                r.val[1][k][i][1] = "fld" /\ r.val[1][k][i][2] \notin DOMAIN msg )
    => /\ pc = "idle" /\ raised = "none"
       /\ trace = <<>> /\ attempts = 0
       /\ logs = <<"exception">>

\* an entry, which has no "profit", met a mapping whose second key names it
C6_Witness ==
    /\ Done /\ msg.type = ENTRY
    /\ whconfig = (ENTRY :> Template(ENTRY, "miss2"))
    /\ logs = <<"exception">> /\ raised = "none"

(* C7: With a format outside form, json, raw and an event that reaches         *)
(* delivery, the error is raised to the caller in the first attempt: no POST,  *)
(* no retry delay, no further attempt, for every retries and for a single URL  *)
(* as for a list.                                                              *)
C7_UnsupportedFormatRaisesAtOnce ==
    (ReachedDelivery /\ format \notin {"form", "json", "raw"}) =>
        /\ pc = "idle"
        /\ raised # "none"
        /\ Destinations # {} => raised = "NotImplementedError"
        /\ trace = <<>>
        /\ attempts = 1
        /\ logs = <<>>

\* format xml, retries 2 and a list of two URLs: the call raised
C7_Witness ==
    /\ Done /\ format = "xml" /\ retries = 2
    /\ url.list /\ Len(url.v) = 2
    /\ raised = "NotImplementedError" /\ attempts = 1

(* C8: An event type that is no key of the configuration, not in the legacy    *)
(* table and not passive is skipped: a debug record, no HTTP call, no          *)
(* exception.                                                                  *)
C8_UnmappedTypeSkipped ==
    ( /\ msg # NoMsg
      /\ msg.type \notin DOMAIN whconfig
      /\ msg.type \notin TradeTypes \cup StatusTypes \cup PassiveTypes )
    => /\ raised = "none"
       /\ trace = <<>>
       /\ logs = <<"debug">>

\* the legacy table of the documentation
LegacyTable ==
    [t \in TradeTypes \cup StatusTypes |->
        CASE t = "entry"        -> "webhookentry"
          [] t = "entry_cancel" -> "webhookentrycancel"
          [] t = "entry_fill"   -> "webhookentryfill"
          [] t = "exit"         -> "webhookexit"
          [] t = "exit_fill"    -> "webhookexitfill"
          [] t = "exit_cancel"  -> "webhookexitcancel"
          [] OTHER              -> "webhookstatus"]

(* C9: For every event type of the legacy table, when the configuration has no *)
(* key equal to the type's name, routing selects the mapping under the table's *)
(* key, and the call renders that mapping; when that key is absent too, the    *)
(* call is a skip.                                                             *)
C9_LegacyAliasSelected ==
    /\ \A t \in DOMAIN LegacyTable :
          t \notin DOMAIN whconfig =>
              _get_value_dict(whconfig, MsgOf(t)) = Return(Get(whconfig, LegacyTable[t]))
    /\ (msg.type \in DOMAIN LegacyTable /\ msg.type \notin DOMAIN whconfig) =>
          LET key == LegacyTable[msg.type] IN
          IF key \notin DOMAIN whconfig
          THEN pc = "idle" /\ trace = <<>> /\ logs = <<"debug">> /\ raised = "none"
          ELSE ReachedDelivery => payload = Render(whconfig[key], msg).val

\* an exit fill was rendered from webhookexitfill, with webhookexit configured too
C9_Witness ==
    /\ msg.type = EXIT_FILL
    /\ DOMAIN whconfig = {"webhookexit", "webhookexitfill"}
    /\ payload = ("data" :> "webhookexitfillBTC")
    /\ Done /\ Len(Posts) = 1

(* C10: Whenever the configuration has a key equal to the event type's name,   *)
(* routing returns the mapping under that key and never the legacy one, also   *)
(* when the legacy key is configured: the call renders that mapping, or skips  *)
(* when that mapping is empty.                                                 *)
C10_ExactKeyHasPriority ==
    /\ \A t \in MsgTypes \cap DOMAIN whconfig :
          _get_value_dict(whconfig, MsgOf(t)) = Return(Some(whconfig[t]))
    /\ (msg # NoMsg /\ msg.type \in DOMAIN whconfig) =>
          IF whconfig[msg.type] = <<>>
          THEN pc = "idle" /\ trace = <<>> /\ logs = <<"debug">> /\ raised = "none"
          ELSE ReachedDelivery => payload = Render(whconfig[msg.type], msg).val

\* an entry was rendered from the mapping under "entry", with webhookentry
\* configured too
C10_Witness ==
    /\ msg.type = ENTRY
    /\ DOMAIN whconfig = {ENTRY, "webhookentry"}
    /\ payload = ("data" :> "entryBTC")
    /\ Done /\ Len(Posts) = 1

-----------------------------------------------------------------------------
(* More observations of a call. *)

\* the position of URL u in the configured list
UrlPos(u) == CHOOSE i \in 1..Len(url.v) : url.v[i] = u

LastUrl == url.v[Len(url.v)]

\* the positions in Posts of the POSTs of attempt a
PostsOf(a) == { i \in 1..Len(Posts) : Posts[i].attempt = a }

\* attempt a is over: a later attempt has begun, or the call has ended
AttemptOver(a) == a < attempts \/ (a = attempts /\ pc = "idle")

\* the last response of the call is a success of the last URL: `success = True`
Succeeded ==
    /\ Done /\ Posts # <<>>
    /\ Posts[Len(Posts)].req.outcome = "ok"
    /\ Posts[Len(Posts)].req.url = LastUrl

\* the call used up its attempts without a success
Dropped ==
    /\ Done /\ ReachedDelivery /\ Postable /\ Destinations # {}
    /\ ~Succeeded

IsWarning(l) == l = "warning"

Warnings == Len(SelectSeq(logs, IsWarning))

Sleeps == Len(SelectSeq(trace, IsSleep))

-----------------------------------------------------------------------------
(* C11: With format raw and a payload that has "data", every POST of the call  *)
(* carries exactly payload["data"] as its body, with content type text/plain,  *)
(* and no other key of the payload; with format form or json every POST        *)
(* carries the whole payload.                                                  *)
C11_BodyPerFormat ==
    \A i \in 1..Len(Posts) :
        LET req == Posts[i].req IN
        /\ format = "raw" =>
              /\ "data" \in DOMAIN payload
              /\ req.enc = "text/plain"
              /\ req.text = payload["data"]
              /\ req.fields = NoFields
        /\ format \in {"form", "json"} =>
              /\ req.enc = format
              /\ req.fields = payload
              /\ req.text = ""

\* an exit rendered to two keys went out raw: the body is the text of "data"
C11_Witness ==
    /\ format = "raw" /\ msg.type = EXIT
    /\ DOMAIN payload = {"data", "text"}
    /\ Len(Posts) >= 1
    /\ Posts[1].req.text = "exit5"

(* C12: With a list of URLs, an attempt POSTs to the URLs in the order of the  *)
(* list, and only the response of the last URL decides whether the attempt     *)
(* succeeded: an attempt that no transport failure cut short POSTs to every    *)
(* URL whatever the earlier responses were, the call ends without a further    *)
(* attempt when the last URL answers with success (so a URL that answered with *)
(* an error status is not retried then), and a failed attempt is followed by   *)
(* an attempt on the whole list from its first URL (so a URL that answered     *)
(* with success is POSTed again).                                              *)
C12_LastUrlDecides ==
    (url.list /\ Len(url.v) >= 1 /\ Postable) =>
        /\ \A i \in 1..Len(Posts) :
              \* an attempt starts at the first URL and goes on in list order
              /\ (i = 1 \/ Posts[i - 1].attempt # Posts[i].attempt)
                    => Posts[i].req.url = url.v[1]
              /\ (i > 1 /\ Posts[i - 1].attempt = Posts[i].attempt)
                    => UrlPos(Posts[i].req.url) = UrlPos(Posts[i - 1].req.url) + 1
              \* after a success of the last URL nothing more is posted
              /\ (Posts[i].req.url = LastUrl /\ Posts[i].req.outcome = "ok")
                    => (i = Len(Posts) /\ pc = "idle" /\ raised = "none")
        /\ \A a \in 1..attempts :
              \* an attempt without a transport failure posted to the whole list
              /\ (AttemptOver(a) /\ \A i \in PostsOf(a) : Posts[i].req.outcome # "fail")
                    => Cardinality(PostsOf(a)) = Len(url.v)
              \* a failed attempt is followed by another one while retries remain
              /\ ( /\ AttemptOver(a) /\ a <= retries
                   /\ \E i \in PostsOf(a) :
                         \/ Posts[i].req.outcome = "fail"
                         \/ Posts[i].req.url = LastUrl /\ Posts[i].req.outcome = "err" )
                    => attempts > a

\* u1 succeeded and u2 failed, the retry posted to u1 again; then u1 answered
\* with an error status and u2 with success, and the call ended with a retry left
C12_Witness ==
    /\ Done /\ retries = 2 /\ url.v = <<"u1", "u2">> /\ url.list
    /\ Len(Posts) = 4 /\ attempts = 2
    /\ Posts[1].req.outcome = "ok" /\ Posts[2].req.outcome = "err"
    /\ Posts[3].req.outcome = "err" /\ Posts[4].req.outcome = "ok"
    /\ Posts[3].req.url = "u1"

(* C13: The delay is taken before every retry and never before the first       *)
(* attempt nor after the last: every sleep follows a POST of attempt n - 1 and  *)
(* comes before the POST of attempt n, attempt n >= 2 has exactly one sleep     *)
(* before it, so the sleeps number attempts - 1 when retry_delay > 0, and there *)
(* is no sleep when retry_delay is 0.                                           *)
C13_DelayBeforeEachRetry ==
    /\ Sleeps = (IF retry_delay > 0 /\ attempts >= 1 THEN attempts - 1 ELSE 0)
    /\ \A i \in 1..Len(trace) :
          IsSleep(trace[i]) =>
              /\ trace[i].secs = retry_delay
              /\ i > 1 /\ IsPost(trace[i - 1]) /\ trace[i - 1].attempt = trace[i].attempt
              /\ i < Len(trace) =>
                    (IsPost(trace[i + 1]) /\ trace[i + 1].attempt = trace[i].attempt + 1)
              \* a sleep is the last event only while the POST after it is in flight
              /\ i = Len(trace) => (pc = "post" /\ attempts = trace[i].attempt + 1)

\* three failed attempts on one URL with the default delay: two sleeps, each
\* between two POSTs
C13_Witness ==
    /\ Done /\ retries = 2 /\ retry_delay = DefaultRetryDelay /\ ~url.list
    /\ Len(trace) = 5
    /\ IsPost(trace[1]) /\ IsSleep(trace[2]) /\ IsPost(trace[3])
    /\ IsSleep(trace[4]) /\ IsPost(trace[5])

(* C14: For a single destination the loop stops at the first successful        *)
(* attempt: no POST is made after a POST whose response is a success, and the  *)
(* attempts of a call never exceed retries + 1.                                *)
C14_StopsAtFirstSuccess ==
    Len(url.v) = 1 =>
        /\ \A i, j \in 1..Len(Posts) : i < j => Posts[i].req.outcome # "ok"
        /\ (Posts # <<>> /\ Posts[Len(Posts)].req.outcome = "ok") => pc = "idle"
        /\ Len(Posts) <= retries + 1
        /\ attempts <= retries + 1

\* one URL, retries 2: a failed POST, then a success, and the call is over
C14_Witness ==
    /\ Done /\ retries = 2 /\ ~url.list
    /\ Len(Posts) = 2
    /\ Posts[1].req.outcome = "fail" /\ Posts[2].req.outcome = "ok"

(* C15: A warning is logged when the delivery ends dropped, and no warning is  *)
(* logged in a call whose delivery ends in success, also a success reached     *)
(* after failed attempts.                                                      *)
C15_WarningOnlyWhenDropped ==
    /\ Dropped => Warnings >= 1
    /\ Succeeded => Warnings = 0

(* C15, as amended: a warning is logged for every failed attempt: a call whose *)
(* delivery ends dropped has logged retries + 1 warnings, a call that succeeds *)
(* after k failed attempts has logged k warnings, and none only when its first *)
(* attempt succeeded.                                                          *)
C15_WarningPerFailedAttempt ==
    /\ Dropped => Warnings = retries + 1
    /\ Succeeded => Warnings = attempts - 1
    /\ (pc = "post" /\ Postable) => Warnings = attempts - 1

\* a success in the third attempt, after two warnings
C15_Witness ==
    /\ Succeeded /\ attempts = 3 /\ Warnings = 2

(* C16: Every call terminates: for every retries and every sequence of network *)
(* outcomes, each POST returning or failing within its timeout, a call that    *)
(* has a POST in flight comes to its end (success, dropped, or a raised        *)
(* error) after at most retries + 1 attempts, each of at most one POST per     *)
(* URL; it does not loop forever on a destination that always fails.           *)
C16_EveryCallTerminates ==
    /\ [](attempts <= retries + 1 /\ Len(Posts) <= (retries + 1) * Len(url.v))
    /\ (pc = "post") ~> (pc = "idle")

\* a call on one URL that failed in every one of its three attempts has ended
C16_Witness ==
    /\ Done /\ retries = 2 /\ Len(url.v) = 1
    /\ Len(Posts) = 3
    /\ \A i \in 1..3 : Posts[i].req.outcome = "fail"
    /\ raised = "none"

(* C17: The configuration is read-only after startup: no step of a call,       *)
(* whatever the call's outcome, changes the URL(s), the format, retries,       *)
(* retry_delay, timeout or a template mapping; and the attempt counter and the *)
(* success flag belong to one call: whatever the call before did, a call that  *)
(* goes into delivery starts with attempt 1, no POST made, no sleep taken and  *)
(* no warning logged.                                                          *)
C17_ConfigReadOnlyCallsIndependent ==
    [][ /\ confvars' = confvars
        /\ (pc = "idle" /\ attempts' >= 1) =>
              /\ attempts' = 1
              /\ trace' = <<>>
              /\ \A i \in 1..Len(logs') : logs'[i] # "warning" ]_vars

\* a call over two URLs ended dropped after its two attempts; the next call
\* starts from this state
C17_Witness ==
    /\ Dropped /\ retries = 1 /\ attempts = 2
    /\ url.list /\ Len(url.v) = 2
    /\ format = "json" /\ retry_delay = 0
    /\ whconfig = (ENTRY :> Template(ENTRY, "plain"))

(* C18: With format raw and a rendered payload that has no "data", the call    *)
(* makes no POST, no retry and no retry delay whatever retries is, logs the    *)
(* problem as a configuration problem and returns without raising.             *)
C18_RawWithoutDataLogged ==
    (format = "raw" /\ ReachedDelivery /\ "data" \notin DOMAIN payload) =>
        /\ pc = "idle"
        /\ trace = <<>>
        /\ attempts = 1
        /\ logs = <<"exception">>
        /\ raised = "none"

(* C18, where _post_msg is called (at least one URL is configured): the        *)
(* statement above holds.                                                      *)
C18_RawWithoutDataLoggedAtPost ==
    Destinations # {} => C18_RawWithoutDataLogged

(* C19: With a list of URLs, a transport failure of the POST to the URL at     *)
(* position i ends the attempt: the URLs after position i get no POST in that  *)
(* attempt, the attempt counts as failed, and if it was the last allowed       *)
(* attempt those later URLs get no POST at all in the call.                    *)
C19_TransportFailureAbortsNoPostAtAll ==
    (url.list /\ Len(url.v) >= 2 /\ Postable) =>
        \A i \in 1..Len(Posts) :
            Posts[i].req.outcome = "fail" =>
                /\ i < Len(Posts) => Posts[i + 1].attempt = Posts[i].attempt + 1
                /\ Warnings >= Posts[i].attempt
                /\ Posts[i].attempt <= retries => attempts > Posts[i].attempt
                /\ Posts[i].attempt = retries + 1 =>
                      \A k \in (UrlPos(Posts[i].req.url) + 1)..Len(url.v) :
                          PostsTo(url.v[k]) = {}

(* C19, as amended: ... and if it was the last allowed attempt the call ends   *)
(* there: those later URLs get no further POST in the call (they may have got  *)
(* POSTs in earlier attempts).                                                 *)
C19_TransportFailureAbortsAttempt ==
    (url.list /\ Len(url.v) >= 2 /\ Postable) =>
        \A i \in 1..Len(Posts) :
            Posts[i].req.outcome = "fail" =>
                /\ i < Len(Posts) => Posts[i + 1].attempt = Posts[i].attempt + 1
                /\ Warnings >= Posts[i].attempt
                /\ Posts[i].attempt <= retries => attempts > Posts[i].attempt
                /\ Posts[i].attempt = retries + 1 =>
                      (i = Len(Posts) /\ pc = "idle" /\ raised = "none")

\* two URLs and no retry: the POST to u1 failed in transport, the call is over
\* and u2 got no POST
C19_Witness ==
    /\ Done /\ retries = 0 /\ url.list /\ Len(url.v) = 2
    /\ Len(Posts) = 1
    /\ Posts[1].req.url = "u1" /\ Posts[1].req.outcome = "fail"
    /\ PostsTo("u2") = {}

(* C20: The format is looked at only when a POST is about to be made: with an  *)
(* unsupported format, a call that is skipped (no template selected, or an     *)
(* empty one) or whose rendering fails on a missing field raises nothing and   *)
(* makes no HTTP call; the format error reaches the caller only from a call    *)
(* that went into delivery.                                                    *)
C20_FormatCheckedOnlyAtPost ==
    format \notin {"form", "json", "raw"} =>
        /\ raised = "NotImplementedError" => ReachedDelivery
        /\ LET r == _get_value_dict(whconfig, msg) IN
           ( /\ msg # NoMsg /\ r.exc = "none"
             /\ \/ Falsy(r.val)
                \/ Render(r.val[1], msg).exc # "none" )
           => /\ pc = "idle" /\ raised = "none"
              /\ trace = <<>> /\ attempts = 0
              /\ logs = (IF Falsy(r.val) THEN <<"debug">> ELSE <<"exception">>)

\* with format xml, an entry met a template that names a field it does not
\* have: the call logged it and returned
C20_Witness ==
    /\ format = "xml" /\ Done /\ msg.type = ENTRY
    /\ whconfig = (ENTRY :> Template(ENTRY, "miss1"))
    /\ logs = <<"exception">> /\ raised = "none" /\ attempts = 0
====
